---- MODULE Spec2Model ----
(***************************************************************************)
(* Model of warranty_pdf_generator/models/warranty_pdf_generator.py:       *)
(* AccountMoveWarranty.generate_warranty_pdfs and its render helper, the   *)
(* settings model WarrantyPdfSettings and the confirmation wizard          *)
(* WarrantyMissingWarrantyWizard.                                          *)
(*                                                                         *)
(* Python text values are sequences of one-character strings, so that      *)
(* containment, replace, strip, join and split are computed, not assumed.  *)
(***************************************************************************)
EXTENDS Integers, Sequences, FiniteSets, TLC

\* ------------------------------------------------------------------ bounds

\* Total number of invoice lines over all invoices of the database.
MaxLines == 2

\* Number of pieces an x_studio_warranty text is assembled from (SpecNorm).
MaxPieces == 3

\* ------------------------------------------------------------ python text

IsSpace(c) == c \in {" ", "\t", "\n"}

\* s[from..] starts with sub
StartsWith(s, sub) ==
    /\ Len(sub) <= Len(s)
    /\ \A i \in 1..Len(sub) : s[i] = sub[i]

\* Python: sub in s
Contains(sub, s) ==
    \E k \in 0..(Len(s) - Len(sub)) :
        \A i \in 1..Len(sub) : s[k + i] = sub[i]

RECURSIVE Replace(_, _)
\* Python: s.replace(old, '') for a non-empty old: leftmost, non-overlapping
Replace(s, old) ==
    IF Len(s) < Len(old) THEN s
    ELSE IF StartsWith(s, old)
         THEN Replace(SubSeq(s, Len(old) + 1, Len(s)), old)
         ELSE <<Head(s)>> \o Replace(Tail(s), old)

RECURSIVE LStrip(_)
LStrip(s) == IF s # <<>> /\ IsSpace(Head(s)) THEN LStrip(Tail(s)) ELSE s

RECURSIVE RStrip(_)
RStrip(s) ==
    IF s # <<>> /\ IsSpace(s[Len(s)]) THEN RStrip(SubSeq(s, 1, Len(s) - 1)) ELSE s

\* Python: s.strip()
Strip(s) == RStrip(LStrip(s))

Digit(d) == <<"0", "1", "2", "3", "4", "5", "6", "7", "8", "9">>[d + 1]

RECURSIVE IntToStr(_)
\* Python: str(n) for n >= 0
IntToStr(n) == IF n < 10 THEN <<Digit(n)>> ELSE IntToStr(n \div 10) \o <<Digit(n % 10)>>

RECURSIVE Join(_)
\* Python: ','.join(parts)
Join(parts) ==
    IF parts = <<>> THEN <<>>
    ELSE IF Len(parts) = 1 THEN parts[1]
    ELSE parts[1] \o <<",">> \o Join(Tail(parts))

RECURSIVE Split(_)
\* Python: s.split(',')
Split(s) ==
    IF \A i \in 1..Len(s) : s[i] # "," THEN <<s>>
    ELSE LET k == CHOOSE i \in 1..Len(s) :
                      s[i] = "," /\ \A j \in 1..(i - 1) : s[j] # ","
         IN  <<SubSeq(s, 1, k - 1)>> \o Split(SubSeq(s, k + 1, Len(s)))

\* ---------------------------------------------------- product.product rows

\* x_studio_warranty values: a text, the explicit False, or no such attribute
WStr(s) == [tag |-> "str", s |-> s]
WFalse == [tag |-> "false", s |-> <<>>]
WAbsent == [tag |-> "absent", s |-> <<>>]

NoProduct == 0

S_TV == <<"T", "V", " ", "X">>
S_Fridge == <<"F", "r", "i", "d", "g", "e">>
S_GiftCard == <<"G", "i", "f", "t", " ", "C", "a", "r", "d">>
S_GiftCard50 == <<"G", "i", "f", "t", " ", "C", "a", "r", "d", " ", "5", "0">>
S_giftcard == <<"g", "i", "f", "t", " ", "c", "a", "r", "d">>
S_Delivery == <<"D", "e", "l", "i", "v", "e", "r", "y">>
S_BadMarkup == <<"<", "b", ">", "A", "C">>
S_24muaj == <<"2", "4", " ", "m", "u", "a", "j">>
S_3muaj == <<"3", " ", "m", "u", "a", "j">>

\* The product.product records of the database the invoices refer to.
ProductIds == {1, 2, 3, 4, 5, 6, 7884}

Product(id) ==
    CASE id = 1 -> [id |-> 1, display_name |-> S_TV, name |-> S_TV,
                    x_studio_warranty |-> WStr(S_24muaj)]
      [] id = 2 -> [id |-> 2, display_name |-> S_Fridge, name |-> S_Fridge,
                    x_studio_warranty |-> WFalse]
      [] id = 3 -> [id |-> 3, display_name |-> S_GiftCard50, name |-> S_GiftCard50,
                    x_studio_warranty |-> WFalse]
      [] id = 4 -> [id |-> 4, display_name |-> S_giftcard, name |-> <<>>,
                    x_studio_warranty |-> WAbsent]
      [] id = 5 -> [id |-> 5, display_name |-> S_BadMarkup, name |-> S_BadMarkup,
                    x_studio_warranty |-> WStr(<<>>)]
      [] id = 6 -> [id |-> 6, display_name |-> S_Delivery, name |-> S_Delivery,
                    x_studio_warranty |-> WFalse]
      [] id = 7884 -> [id |-> 7884, display_name |-> S_GiftCard, name |-> S_GiftCard,
                       x_studio_warranty |-> WStr(<<>>)]

\* -------------------------------------------------------- account.move rows

Invoices == {1, 2}

S_INV1 == <<"I", "N", "V", "1">>
S_Ana == <<"A", "n", "a">>
S_CustomerPlaceholder == <<"_", "_", "_", "_", "_", "_", "_", "_", "_", "_",
                           "_", "_", "_", "_", "_", "_", "_", "_", "_">>
S_ProductPlaceholder == <<"_", "_", "_", "_", "_", "_", "_", "_",
                          "_", "_", "_", "_", "_", "_", "_", "_">>

NoDate == [set |-> FALSE, d |-> 1, m |-> 1, y |-> 1]

\* name, partner_id.name and invoice_date of an account.move record; an unset
\* Char or Date field reads as a falsy value (here the empty text / NoDate).
Move(id) ==
    CASE id = 1 -> [id |-> 1, name |-> S_INV1, partner_name |-> S_Ana,
                    invoice_date |-> [set |-> TRUE, d |-> 3, m |-> 11, y |-> 2025]]
      [] id = 2 -> [id |-> 2, name |-> <<>>, partner_name |-> <<>>,
                    invoice_date |-> NoDate]

Pad2(n) == IF n < 10 THEN <<"0">> \o IntToStr(n) ELSE IntToStr(n)

\* invoice_date.strftime('%d/%m/%Y')
Strftime(date) == Pad2(date.d) \o <<"/">> \o Pad2(date.m) \o <<"/">> \o IntToStr(date.y)

\* ------------------------------------------------------- python outcomes

\* The result of running a block of Python: a value, or an exception raised.
Return(v) == [raised |-> FALSE, exc |-> "", value |-> v]
Raise(e, v) == [raised |-> TRUE, exc |-> e, value |-> v]

\* ------------------------------------------------------------------ state

VARIABLES
    invoice_line_ids,   \* account.move id -> its lines, each the id of the
                        \* line's product_id (NoProduct: a line without one)
    config,             \* ir.config_parameter: key -> [set, value]
    attachments,        \* ir.attachment rows, in creation order
    wizards,            \* open warranty.missing.warranty.wizard records
    last,               \* the last generate_warranty_pdfs call and its result
    raw,                \* an x_studio_warranty value handed to the normalizer
    period,             \* what the normalizer made of raw
    env,                \* the server the module runs on: whether the logo file
                        \* exists, and which step of a section's try block raises
    page,               \* the arguments of a composition call, and its result
    conc                \* account.move id -> the invocation of
                        \* generate_warranty_pdfs running on it: its position,
                        \* context flag, local variables and returned action

vars == <<invoice_line_ids, config, attachments, wizards, last, raw, period, env, page, conc>>

\* Cap on the ir.attachment rows a behaviour creates.
MaxAttachments == 2

\* ----------------------------------------------------- certificate render

S_muaj == <<" ", "m", "u", "a", "j">>
S_month == <<" ", "m", "o", "n", "t", "h">>
S_1 == <<"1">>

\* getattr(product, 'x_studio_warranty', '1')
GetAttrWarranty(product) ==
    IF product.x_studio_warranty.tag = "absent" THEN WStr(S_1)
    ELSE product.x_studio_warranty

\* Lines 157-162 without the final default: the mutant of WarrantyPeriod.
WarrantyPeriod_NoDefault(warranty_value) ==
    IF warranty_value.tag = "false" THEN S_1
    ELSE Strip(Replace(Replace(warranty_value.s, S_muaj), S_month))

\* warranty_period of lines 157-162, from the value getattr returned
WarrantyPeriod(warranty_value) ==
    LET stripped == IF warranty_value.tag = "false" THEN S_1
                    ELSE Strip(Replace(Replace(warranty_value.s, S_muaj), S_month))
    IN  IF stripped = <<>> THEN S_1 ELSE stripped

S_OpenB == <<"<", "b", ">">>
S_CloseB == <<"<", "/", "b", ">">>

\* reportlab's Paragraph(text, style) raises ValueError on markup it cannot
\* parse: here, a <b> tag that is never closed.
ParagraphRaises(text) == Contains(S_OpenB, text) /\ ~Contains(S_CloseB, text)

\* The certificate the PDF bytes hold; NoPdf is Python's None.
NoPdf == [tag |-> "none", customer_name |-> <<>>, product_name |-> <<>>,
          warranty_period |-> <<>>, invoice_number |-> <<>>, invoice_date |-> <<>>]

Pdf(customer_name, product_name, warranty_period, invoice_number, invoice_date) ==
    [tag |-> "pdf", customer_name |-> customer_name, product_name |-> product_name,
     warranty_period |-> warranty_period, invoice_number |-> invoice_number,
     invoice_date |-> invoice_date]

\* ------------------------------------------------------ reportlab blocks

\* A flowable of the story. fixed is the text the source writes as a literal
\* (letters with diaeresis written plain), text the part that comes from the
\* arguments; rows holds a Table's rows of cells or a ListFlowable's items,
\* every cell being a list of blocks.
Block(flowable, style, fixed, text, rows) ==
    [flowable |-> flowable, style |-> style, fixed |-> fixed, text |-> text,
     rows |-> rows]

Paragraph(fixed, text, style) == Block("Paragraph", style, fixed, text, <<>>)

\* A plain string in a Table cell
Str(fixed) == Block("str", "", fixed, <<>>, <<>>)

Image == Block("Image", "", "static/data/logo.jpeg", <<>>, <<>>)

Spacer == Block("Spacer", "", "", <<>>, <<>>)

Table(rows) == Block("Table", "", "", <<>>, rows)

\* ListFlowable of one ListItem(Paragraph(term, terms_style)) per term
ListFlowable(terms, n) ==
    Block("ListFlowable", "", terms, <<>>,
          << [i \in 1..n |-> <<Paragraph(terms, <<>>, "WarrantyTerms")>>] >>)

\* The server as the repository leaves it: src/ ships no static/data/logo.jpeg,
\* and no step of a section raises by itself.
InstalledEnv == [logo_exists |-> FALSE, header_fault |-> FALSE, section_fault |-> "none"]

\* Lines 506-517 without the os.path.exists test, the Image built in every
\* case: a mutant of CreateHeaderSection.
CreateHeaderSection_NoCheck ==
    IF env.header_fault
    THEN <<Paragraph("SUPERMART", <<>>, "HeaderFallback")>>
    ELSE LET contact_table ==
                 Table(<< << <<Str("Adresa")>>,
                             <<Str("Rr Mihal Grameno, 10m mbi BKT Tirane Albania")>> >>,
                          << <<Str("Sherbimi i klientit")>>, <<Str("0697015351")>> >>,
                          << <<Str("E-mail")>>, <<Str("info@supermart.al")>> >>,
                          << <<Str("Web")>>, <<Str("www.supermart.al")>> >> >>)
         IN  <<Table(<< << <<Image>>, <<contact_table>> >> >>)>>

\* _create_header_section: the logo (or its placeholder) beside the contact
\* table, and the fallback of the except block
CreateHeaderSection ==
    IF env.header_fault
    THEN <<Paragraph("SUPERMART", <<>>, "HeaderFallback")>>
    ELSE LET logo == IF env.logo_exists THEN Image
                     ELSE Paragraph("LOGO", <<>>, "LogoPlaceholder")
             contact_table ==
                 Table(<< << <<Str("Adresa")>>,
                             <<Str("Rr Mihal Grameno, 10m mbi BKT Tirane Albania")>> >>,
                          << <<Str("Sherbimi i klientit")>>, <<Str("0697015351")>> >>,
                          << <<Str("E-mail")>>, <<Str("info@supermart.al")>> >>,
                          << <<Str("Web")>>, <<Str("www.supermart.al")>> >> >>)
         IN  <<Table(<< << <<logo>>, <<contact_table>> >> >>)>>

\* A code point str.encode('utf-8') refuses: a lone surrogate
Surrogate == "U+D800"

S_Surrogate == <<"T", "V", Surrogate>>

S_SpaceMuaj == <<" ", "M", "u", "a", "j">>

\* Lines 601-603 and 692-694: text.encode('utf-8').decode('utf-8') if text
\* else placeholder
SafeText(text, placeholder) ==
    IF text = <<>> THEN Return(placeholder)
    ELSE IF \E i \in 1..Len(text) : text[i] = Surrogate
    THEN Raise("UnicodeEncodeError: surrogates not allowed", <<>>)
    ELSE Return(text)

\* Lines 585-686, the try block of _create_customer_product_section
CreateCustomerProductSectionTry(customer_name, product_name, warranty_period) ==
    LET Body(safe_customer_name, safe_product_name, safe_warranty_period) ==
            IF env.section_fault = "style"
            THEN Raise("Exception: ParagraphStyle", <<>>)
            ELSE IF safe_customer_name.raised THEN safe_customer_name
            ELSE IF safe_product_name.raised THEN safe_product_name
            ELSE IF safe_warranty_period.raised THEN safe_warranty_period
            ELSE IF \/ ParagraphRaises(safe_customer_name.value)
                    \/ ParagraphRaises(safe_product_name.value)
                    \/ ParagraphRaises(safe_warranty_period.value \o S_SpaceMuaj)
            THEN Raise("ValueError: paraparser", <<>>)
            ELSE IF env.section_fault = "table"
            THEN Raise("Exception: Table", <<>>)
            ELSE Return(<<Table(<< <<
                <<Table(<< << <<Paragraph("Emer Mbiemer:", <<>>, "FormLabel")>>,
                              <<Paragraph("", safe_customer_name.value, "Value")>> >>,
                           << <<Paragraph("Marka:", <<>>, "FormLabel")>>,
                              <<Paragraph("", safe_product_name.value, "Value")>> >>,
                           << <<Paragraph("Afati Garancise:", <<>>, "FormLabel")>>,
                              <<Paragraph("", safe_warranty_period.value \o S_SpaceMuaj,
                                          "Value")>> >> >>)>>,
                <<Table(<< << <<Str("FLETE GARANCIE")>> >> >>)>> >> >>)>>)
    IN  Body(SafeText(customer_name, S_CustomerPlaceholder),
             SafeText(product_name, S_ProductPlaceholder),
             SafeText(warranty_period, S_1))

\* _create_customer_product_section: the try block, and the except block of
\* lines 688-698, which computes the three texts again and builds its
\* Paragraphs with form_label_style, the first name the try block binds.
CreateCustomerProductSection(customer_name, product_name, warranty_period) ==
    LET Except(safe_customer_name, safe_product_name, safe_warranty_period) ==
            IF safe_customer_name.raised THEN safe_customer_name
            ELSE IF safe_product_name.raised THEN safe_product_name
            ELSE IF safe_warranty_period.raised THEN safe_warranty_period
            ELSE IF env.section_fault = "style"
            THEN Raise("UnboundLocalError: form_label_style", <<>>)
            ELSE IF \/ ParagraphRaises(safe_customer_name.value)
                    \/ ParagraphRaises(safe_product_name.value)
                    \/ ParagraphRaises(safe_warranty_period.value \o S_SpaceMuaj)
            THEN Raise("ValueError: paraparser", <<>>)
            ELSE Return(<<Paragraph("Emer Mbiemer: ", safe_customer_name.value,
                                    "FormLabel"),
                          Paragraph("Marka: ", safe_product_name.value, "FormLabel"),
                          Paragraph("Afati Garancise: ",
                                    safe_warranty_period.value \o S_SpaceMuaj,
                                    "FormLabel")>>)
        Body(try) ==
            IF ~try.raised THEN try
            ELSE Except(SafeText(customer_name, S_CustomerPlaceholder),
                        SafeText(product_name, S_ProductPlaceholder),
                        SafeText(warranty_period, S_1))
    IN  Body(CreateCustomerProductSectionTry(customer_name, product_name,
                                             warranty_period))

\* _create_signature_section: a spacer and the three columns
CreateSignatureSection ==
    LET underline_para == Paragraph("______________________________", <<>>,
                                    "UnderlineLine")
        col1 == <<underline_para, Paragraph("Bleresi", <<>>, "SignLabel"),
                  Paragraph("(emer,mbiemer dhe nenshkirmi)", <<>>, "SignSubLabel")>>
        col2 == <<underline_para, Paragraph("Montuesi", <<>>, "SignLabel"),
                  Paragraph("(emer,mbiemer dhe nenshkrimi)", <<>>, "SignSubLabel")>>
        col3 == <<underline_para, Paragraph("Shitesi", <<>>, "SignLabel"),
                  Paragraph("(emer,mbiemer,nenshkrimi dhe vula)", <<>>, "SignSubLabel")>>
    IN  <<Spacer, Table(<< <<col1, col2, col3>> >>)>>

\* _create_attention_section: the black box and the text beside it
CreateAttentionSection ==
    LET attention_box == Table(<< << <<Str("Vemendje")>> >> >>)
        right_para == Paragraph("Bleresi konfirmon se bleu produktin ...", <<>>,
                                "AttentionText")
    IN  <<Table(<< << <<attention_box>>, <<right_para>> >> >>)>>

\* Lines 278-394 with the last two sections in the other order: a mutant of
\* CreateWarrantyContentProfessional.
CreateWarrantyContentProfessional_AttentionFirst(customer_name, product_name, warranty_period) ==
    LET Story(section) ==
            IF section.raised THEN section
            ELSE Return(CreateHeaderSection \o <<Spacer>> \o section.value
                        \o <<Spacer,
                             Paragraph("Para se te blini produktin, ...", <<>>,
                                       "Disclaimer"),
                             Paragraph("Kushtet e pergjithshme te garancise:", <<>>,
                                       "SectionTitle"),
                             ListFlowable("warranty_terms", 12),
                             Paragraph("Garancia nuk eshte e vlefshme :", <<>>,
                                       "SectionTitle"),
                             ListFlowable("exclusions_terms", 19)>>
                        \o CreateAttentionSection
                        \o CreateSignatureSection)
    IN  Story(CreateCustomerProductSection(customer_name, product_name,
                                           warranty_period))

\* _create_warranty_content_professional: the story, top to bottom; an
\* exception of _create_customer_product_section passes through it
CreateWarrantyContentProfessional(customer_name, product_name, warranty_period) ==
    LET Story(section) ==
            IF section.raised THEN section
            ELSE Return(CreateHeaderSection \o <<Spacer>> \o section.value
                        \o <<Spacer,
                             Paragraph("Para se te blini produktin, ...", <<>>,
                                       "Disclaimer"),
                             Paragraph("Kushtet e pergjithshme te garancise:", <<>>,
                                       "SectionTitle"),
                             ListFlowable("warranty_terms", 12),
                             Paragraph("Garancia nuk eshte e vlefshme :", <<>>,
                                       "SectionTitle"),
                             ListFlowable("exclusions_terms", 19)>>
                        \o CreateSignatureSection
                        \o CreateAttentionSection)
    IN  Story(CreateCustomerProductSection(customer_name, product_name,
                                           warranty_period))

\* The argument the caller hands to _create_warranty_pdf_direct: a product
\* record (what its docstring names) or a Python list of product records.
RecordArg(id) == [tag |-> "record", rec |-> id, items |-> <<>>]
ListArg(ids) == [tag |-> "list", rec |-> NoProduct, items |-> ids]

\* Lines 140-178, the try block of _create_warranty_pdf_direct
CreateWarrantyPdfDirectTry(self, product) ==
    LET customer_name == IF Move(self).partner_name # <<>>
                         THEN Move(self).partner_name ELSE S_CustomerPlaceholder
    IN  IF product.tag = "list"
        THEN Raise("AttributeError: 'list' object has no attribute 'name'", NoPdf)
        ELSE
        LET rec == Product(product.rec)
            product_name == IF rec.name # <<>> THEN rec.name ELSE S_ProductPlaceholder
            warranty_period == WarrantyPeriod(GetAttrWarranty(rec))
            invoice_number == Move(self).name
            invoice_date == IF Move(self).invoice_date.set
                            THEN Strftime(Move(self).invoice_date) ELSE <<>>
            Build(story) ==
                IF story.raised THEN Raise(story.exc, NoPdf)
                ELSE Return(Pdf(customer_name, product_name, warranty_period,
                                invoice_number, invoice_date))
        IN  Build(CreateWarrantyContentProfessional(customer_name, product_name,
                                                    warranty_period))

\* _create_warranty_pdf_direct: the try block, and the except block of lines
\* 180-182, whose log line reads product.id before it returns None.
CreateWarrantyPdfDirect(self, product) ==
    LET try == CreateWarrantyPdfDirectTry(self, product)
    IN  IF ~try.raised THEN try
        ELSE IF product.tag = "list"
             THEN Raise("AttributeError: 'list' object has no attribute 'id'", NoPdf)
             ELSE Return(NoPdf)

\* ------------------------------------------------- generate_warranty_pdfs

S_GiftCardMarker == <<"G", "i", "f", "t", " ", "C", "a", "r", "d">>

\* Lines 50-53 with the name test left out: a mutant of IsExcluded.
IsExcluded_IdOnly(product) == product.id \in {7884, 6}

\* Lines 50-53: the product of a line is left out of products
IsExcluded(product) ==
    \/ product.id \in {7884, 6}
    \/ Contains(S_GiftCardMarker, product.display_name)

\* Lines 44-54 appending a product only when it is not yet in the list: a
\* mutant of FilterProducts.
FilterProducts_Dedup(line_ids) ==
    LET Kept(l) == l # NoProduct /\ ~IsExcluded(Product(l))
        kept == SelectSeq(line_ids, Kept)
        First(i) == \A j \in 1..(i - 1) : kept[j] # kept[i]
        idx == {i \in 1..Len(kept) : First(i)}
        Rank(i) == Cardinality({j \in idx : j <= i})
    IN  [n \in 1..Cardinality(idx) |-> kept[CHOOSE i \in idx : Rank(i) = n]]

\* Lines 44-54: the products list built from self.invoice_line_ids
FilterProducts(line_ids) ==
    LET Kept(l) == l # NoProduct /\ ~IsExcluded(Product(l))
    IN  SelectSeq(line_ids, Kept)

\* Lines 68-71 listing every product: a mutant of MissingWarrantyProducts.
MissingWarrantyProducts_All(products) == products

\* Lines 68-71 testing "not getattr(...)", which also lists an empty text and
\* a product without the attribute: a mutant of MissingWarrantyProducts.
MissingWarrantyProducts_Falsy(products) ==
    LET Missing(p) == Product(p).x_studio_warranty \in {WFalse, WAbsent, WStr(<<>>)}
    IN  SelectSeq(products, Missing)

\* Lines 68-71: getattr(product, 'x_studio_warranty', None) is False
MissingWarrantyProducts(products) ==
    LET Missing(p) == Product(p).x_studio_warranty.tag = "false"
    IN  SelectSeq(products, Missing)

\* The action dictionaries generate_warranty_pdfs returns.
NoProductsAction ==
    [type |-> "ir.actions.client", title |-> "No Products", level |-> "warning",
     cause |-> "", move_id |-> 0, product_ids |-> {}, attachment_id |-> 0]

ConfirmAction(self, products) ==
    [type |-> "ir.actions.act_window", title |-> "Missing Warranties", level |-> "",
     cause |-> "", move_id |-> self,
     product_ids |-> {products[i] : i \in 1..Len(products)}, attachment_id |-> 0]

FailedAction ==
    [type |-> "ir.actions.client", title |-> "Error", level |-> "danger",
     cause |-> "", move_id |-> 0, product_ids |-> {}, attachment_id |-> 0]

ErrorAction(e) ==
    [type |-> "ir.actions.client", title |-> "Error", level |-> "danger",
     cause |-> e, move_id |-> 0, product_ids |-> {}, attachment_id |-> 0]

DownloadAction(attachment_id) ==
    [type |-> "ir.actions.act_url", title |-> "", level |-> "",
     cause |-> "", move_id |-> 0, product_ids |-> {}, attachment_id |-> attachment_id]

\* What one call leaves behind: the action returned, the lists the call built,
\* whether _create_warranty_pdf_direct was called, and the attachment rows.
CallResult(action, products, missing, rendered, rows) ==
    [action |-> action, products |-> products, missing |-> missing,
     rendered |-> rendered, attachments |-> rows]

\* What an ORM operation of the call may do: nothing wrong, or raise while the
\* lines are read, or raise in ir.attachment's create.
Faults == {"none", "read", "create"}

\* Line 73 ignoring the context flag: a mutant of NeedsConfirmation.
NeedsConfirmation_Always(missing, confirm_missing_warranty) == missing # <<>>

\* Line 73: the wizard is opened instead of rendering
NeedsConfirmation(missing, confirm_missing_warranty) ==
    missing # <<>> /\ ~confirm_missing_warranty

\* Line 56 testing nothing: a mutant of NoProducts.
NoProducts_Never(products) == FALSE

\* Line 56: if not products
NoProducts(products) == products = <<>>

\* Lines 43-116, the try block of generate_warranty_pdfs
GenerateWarrantyPdfsTry(self, confirm_missing_warranty, fault) ==
    IF fault = "read"
    THEN Raise("AccessError: invoice lines",
               CallResult(FailedAction, <<>>, <<>>, FALSE, attachments))
    ELSE
    LET products == FilterProducts(invoice_line_ids[self])
        missing == MissingWarrantyProducts(products)
    IN  IF NoProducts(products)
        THEN Return(CallResult(NoProductsAction, products, <<>>, FALSE, attachments))
        ELSE IF NeedsConfirmation(missing, confirm_missing_warranty)
        THEN Return(CallResult(ConfirmAction(self, missing), products, missing,
                               FALSE, attachments))
        ELSE
        LET pdf_content == CreateWarrantyPdfDirect(self, ListArg(products))
        IN  IF pdf_content.raised
            THEN Raise(pdf_content.exc,
                       CallResult(FailedAction, products, missing, TRUE, attachments))
            ELSE IF pdf_content.value.tag = "none"
            THEN Return(CallResult(FailedAction, products, missing, TRUE, attachments))
            ELSE IF fault = "create"
            THEN Raise("IntegrityError: ir.attachment",
                       CallResult(FailedAction, products, missing, TRUE, attachments))
            ELSE Return(CallResult(
                     DownloadAction(Len(attachments) + 1), products, missing, TRUE,
                     Append(attachments,
                            [id |-> Len(attachments) + 1, res_model |-> "account.move",
                             res_id |-> self, name |-> Move(self).name,
                             datas |-> [b64 |-> pdf_content.value]])))

\* The except block of lines 118-128 re-raising: a mutant of GenerateWarrantyPdfs.
GenerateWarrantyPdfs_Reraise(self, confirm_missing_warranty, fault) ==
    LET try == GenerateWarrantyPdfsTry(self, confirm_missing_warranty, fault)
    IN  IF try.raised
        THEN [try.value EXCEPT !.action =
                 [type |-> "exception", title |-> "", level |-> "", cause |-> try.exc,
                  move_id |-> 0, product_ids |-> {}, attachment_id |-> 0]]
        ELSE try.value

\* The attachment row of lines 101-108 created before line 88 renders, so that
\* it stays when rendering raises: a mutant of GenerateWarrantyPdfs.
GenerateWarrantyPdfs_AttachFirst(self, confirm_missing_warranty, fault) ==
    LET try == GenerateWarrantyPdfsTry(self, confirm_missing_warranty, fault)
    IN  IF try.raised
        THEN [try.value EXCEPT
                 !.action = ErrorAction(try.exc),
                 !.attachments =
                     IF try.value.rendered
                     THEN Append(attachments,
                                 [id |-> Len(attachments) + 1,
                                  res_model |-> "account.move", res_id |-> self,
                                  name |-> Move(self).name, datas |-> [b64 |-> NoPdf]])
                     ELSE attachments]
        ELSE try.value

\* generate_warranty_pdfs: the try block, and the except block of lines 118-128
GenerateWarrantyPdfs(self, confirm_missing_warranty, fault) ==
    LET try == GenerateWarrantyPdfsTry(self, confirm_missing_warranty, fault)
    IN  IF try.raised
        THEN [try.value EXCEPT !.action = ErrorAction(try.exc)]
        ELSE try.value

\* ------------------------------------------------------------ settings

K_Exclude == "warranty_pdf.exclude_product_ids"
K_Period == "warranty_pdf.default_warranty_period"

S_7884 == <<"7", "8", "8", "4">>

Unset == [set |-> FALSE, value |-> <<>>]

\* config.get_param(key, default)
GetParam(key, default) == IF config[key].set THEN config[key].value ELSE default

\* WarrantyPdfSettings.get_settings
GetSettings ==
    [exclude_product_ids |-> Split(GetParam(K_Exclude, S_7884)),
     default_warranty_period |-> GetParam(K_Period, S_1)]

\* Line 741 without its "else '7884'": a mutant of ExcludeIdsText.
ExcludeIdsText_NoDefault(ids) == Join([i \in 1..Len(ids) |-> IntToStr(ids[i])])

\* Line 741: the text stored for the selected products
ExcludeIdsText(ids) ==
    IF ids # <<>> THEN Join([i \in 1..Len(ids) |-> IntToStr(ids[i])]) ELSE S_7884

\* WarrantyPdfSettings.save_settings on a settings record with these fields
SaveSettingsConfig(exclude_product_ids, default_warranty_period) ==
    [config EXCEPT
        ![K_Exclude] = [set |-> TRUE, value |-> ExcludeIdsText(exclude_product_ids)],
        ![K_Period] = [set |-> TRUE,
                       value |-> IF default_warranty_period # <<>>
                                 THEN default_warranty_period ELSE S_1]]

\* ----------------------------------------------------------------- inputs

LineValues == ProductIds \cup {NoProduct}

SeqsUpTo(S, n) == UNION {[1..k -> S] : k \in 0..n}

\* The invoices of the database: at most MaxLines lines in all.
InvoiceDatabases ==
    {db \in [Invoices -> SeqsUpTo(LineValues, MaxLines)] :
        Len(db[1]) + Len(db[2]) <= MaxLines}

\* The settings forms an administrator saves: the products selected (ids in
\* record order) and the default period typed (empty: left blank).
SettingsSelections == {<<>>, <<1>>, <<1, 2>>}
SettingsPeriods == {<<>>, <<"2">>}

\* The pieces a product's x_studio_warranty text is assembled from.
Pieces == {<<"3">>, <<"5">>, <<" ">>, S_muaj, S_month, <<"s">>}

RECURSIVE Flatten(_)
Flatten(parts) == IF parts = <<>> THEN <<>> ELSE Head(parts) \o Flatten(Tail(parts))

RawValues ==
    {WFalse, WAbsent} \cup {WStr(Flatten(parts)) : parts \in SeqsUpTo(Pieces, MaxPieces)}

\* ------------------------------------------------------------------- Init

NoCall ==
    [called |-> FALSE, via |-> "", self |-> 0, confirm |-> FALSE, fault |-> "none",
     action |-> NoProductsAction, products |-> <<>>, missing |-> <<>>,
     rendered |-> FALSE, created |-> 0]

NoPeriod == [set |-> FALSE, value |-> <<>>]

\* An account.move on which no invocation runs.
IdleFrame ==
    [pc |-> "idle", confirm |-> FALSE, fault |-> "none", products |-> <<>>,
     missing |-> <<>>, action |-> NoProductsAction, created |-> {},
     overlapped |-> FALSE]

NoPage ==
    [customer_name |-> <<>>, product_name |-> <<>>, warranty_period |-> <<>>,
     call |-> "none", result |-> Return(<<>>)]

Init ==
    /\ invoice_line_ids \in InvoiceDatabases
    /\ config = [k \in {K_Exclude, K_Period} |-> Unset]
    /\ attachments = <<>>
    /\ wizards = {}
    /\ last = NoCall
    /\ raw = WAbsent
    /\ period = NoPeriod
    /\ env = InstalledEnv
    /\ page = NoPage
    /\ conc = [i \in Invoices |-> IdleFrame]

\* ---------------------------------------------------------------- actions

\* One call of generate_warranty_pdfs on invoice self, and what the web client
\* does with an act_window action: it opens the wizard with the context's
\* default_move_id and default_product_ids.
Call(via, self, confirm_missing_warranty, fault, open) ==
    \E r \in {GenerateWarrantyPdfs(self, confirm_missing_warranty, fault)} :
        /\ Len(attachments) < MaxAttachments
        /\ attachments' = r.attachments
        /\ wizards' = IF r.action.type = "ir.actions.act_window"
                      THEN open \cup {[move_id |-> r.action.move_id,
                                       product_ids |-> r.action.product_ids]}
                      ELSE open
        /\ last' = [called |-> TRUE, via |-> via, self |-> self,
                    confirm |-> confirm_missing_warranty, fault |-> fault,
                    action |-> r.action, products |-> r.products,
                    missing |-> r.missing, rendered |-> r.rendered,
                    created |-> Len(r.attachments) - Len(attachments)]
        /\ UNCHANGED <<invoice_line_ids, config, raw, period, env, page, conc>>

\* The invoice form's button, or any caller that sets the context flag itself.
Generate ==
    \E self \in Invoices, confirm_missing_warranty \in BOOLEAN, fault \in Faults :
        Call("button", self, confirm_missing_warranty, fault, wizards)

\* Line 766: self.move_id
WizardMove(wizard) == wizard.move_id

\* Line 766: with_context(confirm_missing_warranty=True)
WizardContext == TRUE

\* WarrantyMissingWarrantyWizard.action_print
ActionPrint ==
    \E wizard \in wizards, fault \in Faults :
        Call("wizard", WizardMove(wizard), WizardContext, fault, wizards \ {wizard})

\* WarrantyMissingWarrantyWizard.action_cancel
ActionCancel ==
    \E wizard \in wizards :
        /\ wizards' = wizards \ {wizard}
        /\ UNCHANGED <<invoice_line_ids, config, attachments, last, raw, period, env, page, conc>>

\* WarrantyPdfSettings.save_settings
SaveSettings ==
    \E exclude_product_ids \in SettingsSelections,
       default_warranty_period \in SettingsPeriods :
        /\ config' = SaveSettingsConfig(exclude_product_ids, default_warranty_period)
        /\ UNCHANGED <<invoice_line_ids, attachments, wizards, last, raw, period, env, page, conc>>

Next == Generate \/ ActionPrint \/ ActionCancel \/ SaveSettings

Spec == Init /\ [][Next]_vars

\* ------------------------------------------------ the normalizer on its own

InitNorm ==
    /\ invoice_line_ids = [i \in Invoices |-> <<>>]
    /\ config = [k \in {K_Exclude, K_Period} |-> Unset]
    /\ attachments = <<>>
    /\ wizards = {}
    /\ last = NoCall
    /\ raw \in RawValues
    /\ period = NoPeriod
    /\ env = InstalledEnv
    /\ page = NoPage
    /\ conc = [i \in Invoices |-> IdleFrame]

\* Lines 156-162 on a product whose x_studio_warranty is raw
Normalize ==
    /\ ~period.set
    /\ period' = [set |-> TRUE,
                  value |-> WarrantyPeriod(GetAttrWarranty([x_studio_warranty |-> raw]))]
    /\ UNCHANGED <<invoice_line_ids, config, attachments, wizards, last, raw, env, page, conc>>

NextNorm == Normalize

SpecNorm == InitNorm /\ [][NextNorm]_vars

\* ------------------------------- the normalizer and the settings together

NextPeriod == Normalize \/ SaveSettings

SpecPeriod == InitNorm /\ [][NextPeriod]_vars

\* ------------------------------------------------ the composer on its own

\* The servers the module may run on.
Envs ==
    [logo_exists : BOOLEAN, header_fault : BOOLEAN,
     section_fault : {"none", "style", "table"}]

\* The texts _create_warranty_pdf_direct or another caller hands over.
CustomerNames == {<<>>, S_Ana, S_BadMarkup, S_Surrogate}
ProductNames == {<<>>, S_TV, S_BadMarkup, S_Surrogate}
WarrantyPeriods == {<<>>, <<"3">>}

InitCompose ==
    /\ invoice_line_ids = [i \in Invoices |-> <<>>]
    /\ config = [k \in {K_Exclude, K_Period} |-> Unset]
    /\ attachments = <<>>
    /\ wizards = {}
    /\ last = NoCall
    /\ raw = WAbsent
    /\ period = NoPeriod
    /\ env \in Envs
    /\ page \in {[NoPage EXCEPT !.customer_name = c, !.product_name = p,
                                !.warranty_period = w] :
                     c \in CustomerNames, p \in ProductNames, w \in WarrantyPeriods}
    /\ conc = [i \in Invoices |-> IdleFrame]

Composed(call, result) ==
    /\ page.call = "none"
    /\ page' = [page EXCEPT !.call = call, !.result = result]
    /\ UNCHANGED <<invoice_line_ids, config, attachments, wizards, last, raw,
                   period, env, conc>>

\* A call of _create_header_section
HeaderSection == Composed("header", Return(CreateHeaderSection))

\* A call of _create_customer_product_section
CustomerProductSection ==
    Composed("section", CreateCustomerProductSection(
                            page.customer_name, page.product_name, page.warranty_period))

\* A call of _create_warranty_content_professional
WarrantyContentProfessional ==
    Composed("content", CreateWarrantyContentProfessional(
                            page.customer_name, page.product_name, page.warranty_period))

NextCompose == HeaderSection \/ CustomerProductSection \/ WarrantyContentProfessional

SpecCompose == InitCompose /\ [][NextCompose]_vars

\* ------------------------------------ invocations running at the same time

\* Every invocation reading one frame, as a variable of the module would be
\* read: a mutant of Locals.
Locals_Shared(self) == conc[1]

\* The local variables of the invocation on self (products of line 44,
\* missing_warranty_products of line 68, the context of line 73)
Locals(self) == conc[self]

\* Another invocation is between its first and its last statement.
OtherRunning(self) ==
    \E other \in Invoices \ {self} : conc[other].pc \notin {"idle", "done"}

\* The frame of self after a step that leaves it at pc with these locals.
Stepped(self, pc, products, missing, action, created) ==
    [conc EXCEPT ![self] =
        [@ EXCEPT !.pc = pc, !.products = products, !.missing = missing,
                  !.action = action, !.created = created,
                  !.overlapped = @ \/ OtherRunning(self)]]

\* Line 40: a worker enters generate_warranty_pdfs on self
Start ==
    \E self \in Invoices, confirm_missing_warranty \in BOOLEAN, fault \in Faults :
        /\ conc[self].pc = "idle"
        /\ conc' = [conc EXCEPT ![self] =
                       [@ EXCEPT !.pc = "filter", !.confirm = confirm_missing_warranty,
                                 !.fault = fault]]
        /\ UNCHANGED <<invoice_line_ids, config, attachments, wizards, last, raw,
                       period, env, page>>

\* Lines 44-54, and lines 118-128 when reading the lines raises
FilterStep ==
    \E self \in Invoices :
        /\ conc[self].pc = "filter"
        /\ conc' = IF Locals(self).fault = "read"
                   THEN Stepped(self, "done", <<>>, <<>>,
                                ErrorAction("AccessError: invoice lines"), {})
                   ELSE Stepped(self, "check", FilterProducts(invoice_line_ids[self]),
                                <<>>, NoProductsAction, {})
        /\ UNCHANGED <<invoice_line_ids, config, attachments, wizards, last, raw,
                       period, env, page>>

\* Lines 56-85
CheckStep ==
    \E self \in Invoices :
        /\ conc[self].pc = "check"
        /\ \E products \in {Locals(self).products} :
           \E missing \in {MissingWarrantyProducts(products)} :
              conc' = IF NoProducts(products)
                      THEN Stepped(self, "done", products, <<>>, NoProductsAction, {})
                      ELSE IF NeedsConfirmation(missing, Locals(self).confirm)
                      THEN Stepped(self, "done", products, missing,
                                   ConfirmAction(self, missing), {})
                      ELSE Stepped(self, "render", products, missing,
                                   NoProductsAction, {})
        /\ UNCHANGED <<invoice_line_ids, config, attachments, wizards, last, raw,
                       period, env, page>>

\* Lines 87-116, and lines 118-128 when one of them raises
RenderStep ==
    \E self \in Invoices :
        /\ conc[self].pc = "render"
        /\ Len(attachments) < MaxAttachments
        /\ \E products \in {Locals(self).products}, missing \in {Locals(self).missing} :
           \E pdf_content \in {CreateWarrantyPdfDirect(self, ListArg(products))} :
              IF pdf_content.raised
              THEN /\ conc' = Stepped(self, "done", products, missing,
                                      ErrorAction(pdf_content.exc), {})
                   /\ UNCHANGED attachments
              ELSE IF pdf_content.value.tag = "none"
              THEN /\ conc' = Stepped(self, "done", products, missing, FailedAction, {})
                   /\ UNCHANGED attachments
              ELSE IF Locals(self).fault = "create"
              THEN /\ conc' = Stepped(self, "done", products, missing,
                                      ErrorAction("IntegrityError: ir.attachment"), {})
                   /\ UNCHANGED attachments
              ELSE /\ attachments' =
                          Append(attachments,
                                 [id |-> Len(attachments) + 1,
                                  res_model |-> "account.move", res_id |-> self,
                                  name |-> Move(self).name,
                                  datas |-> [b64 |-> pdf_content.value]])
                   /\ conc' = Stepped(self, "done", products, missing,
                                      DownloadAction(Len(attachments) + 1),
                                      {Len(attachments) + 1})
        /\ UNCHANGED <<invoice_line_ids, config, wizards, last, raw, period, env, page>>

InitConc ==
    /\ invoice_line_ids \in InvoiceDatabases
    /\ config = [k \in {K_Exclude, K_Period} |-> Unset]
    /\ attachments = <<>>
    /\ wizards = {}
    /\ last = NoCall
    /\ raw = WAbsent
    /\ period = NoPeriod
    /\ env = InstalledEnv
    /\ page = NoPage
    /\ conc = [i \in Invoices |-> IdleFrame]

NextConc == Start \/ FilterStep \/ CheckStep \/ RenderStep

SpecConc == InitConc /\ [][NextConc]_vars

\* ================================================================= claims

\* The certificate _create_warranty_pdf_direct makes of one product record.
Certificate(self, p) == CreateWarrantyPdfDirect(self, RecordArg(p)).value

Composes(self, p) == Certificate(self, p).tag = "pdf"

\* The certificates a delivered PDF holds, in page order.
Pages(pdf) == <<pdf>>

Range(seq) == {seq[i] : i \in 1..Len(seq)}

\* The exclusion rule as the specification words it, on product ids.
Dropped(p) ==
    \/ p = NoProduct
    \/ p \in {7884, 6}
    \/ Contains(S_GiftCard, Product(p).display_name)

Sentinel(p) == p # NoProduct /\ Product(p).x_studio_warranty = WFalse

\* The lines of the invoice of the last call.
LastLines == invoice_line_ids[last.self]

\* The last call went through the filter: nothing raised while it read the lines.
Filtered == last.called /\ last.fault # "read"

Delivered == last.action.type = "ir.actions.act_url"

\* C1: an invoice with N >= 1 included lines, none of which fails to render,
\* ends in the download action, and the attached document holds exactly the
\* N certificates of the included lines, in line order.
C1_CertificatePerLine ==
    ( /\ Filtered /\ last.fault = "none"
      /\ last.rendered
      /\ \A i \in 1..Len(last.products) : Composes(last.self, last.products[i]) )
    => /\ Delivered
       /\ last.created = 1
       /\ Pages(attachments[last.action.attachment_id].datas.b64)
              = [i \in 1..Len(last.products) |->
                     Certificate(last.self, last.products[i])]

\* C2: no product that the exclusion rule drops (id 7884 or 6, or "Gift Card"
\* in the display name) is in the list handed to rendering, in a confirmation
\* request, or in an open wizard, whatever its warranty value.
C2_ExcludedNeverListed ==
    /\ \A p \in Range(last.products) \cup Range(last.missing)
                \cup last.action.product_ids : ~Dropped(p)
    /\ \A w \in wizards : \A p \in w.product_ids : ~Dropped(p)
    /\ Filtered =>
          \A i \in 1..Len(LastLines) :
              Dropped(LastLines[i]) => LastLines[i] \notin Range(last.products)

C2_Witness ==
    /\ Filtered /\ ~last.confirm
    /\ LastLines = <<3, 2>>
    /\ last.action.type = "ir.actions.act_window"
    /\ last.action.product_ids = {2}

\* The products the settings exclude, as get_settings reads them.
SettingsExcluded(p) ==
    \/ IntToStr(p) \in Range(GetSettings.exclude_product_ids)
    \/ Contains(S_GiftCard, Product(p).display_name)

\* C3: every call drops exactly the lines whose product the saved settings
\* exclude (the default 7884 when nothing was saved) or whose name matches.
C3_ExclusionFromSettings ==
    [][ (last' # last /\ last'.fault # "read")
        => LET Kept(l) == l # NoProduct /\ ~SettingsExcluded(l)
           IN  last'.products = SelectSeq(invoice_line_ids[last'.self], Kept) ]_vars

\* C4: an invoice without lines, or whose lines are all dropped, gets the
\* "No Products" warning whenever the filter ran, for either value of the
\* context flag: no rendering, no attachment, no wizard, no error.
C4_NoProductsWarning ==
    ( Filtered /\ \A i \in 1..Len(LastLines) : Dropped(LastLines[i]) )
    => /\ last.action = NoProductsAction
       /\ ~last.rendered
       /\ last.created = 0

C4_Witness ==
    /\ Filtered /\ last.confirm
    /\ Len(LastLines) = 2
    /\ \A i \in 1..2 : Dropped(LastLines[i]) /\ Sentinel(LastLines[i])
    /\ last.action.title = "No Products"

\* C5: without the context flag, a call on an invoice with a non-dropped line
\* whose warranty is False returns the wizard action for that invoice, listing
\* exactly the non-dropped products with warranty False; nothing is rendered
\* and no attachment is created.
C5_SuspendsForConfirmation ==
    ( /\ Filtered /\ ~last.confirm
      /\ \E i \in 1..Len(LastLines) : ~Dropped(LastLines[i]) /\ Sentinel(LastLines[i]) )
    => /\ last.action.type = "ir.actions.act_window"
       /\ last.action.move_id = last.self
       /\ last.action.product_ids =
              {p \in Range(LastLines) : ~Dropped(p) /\ Sentinel(p)}
       /\ ~last.rendered
       /\ last.created = 0

C5_Witness ==
    /\ Filtered /\ ~last.confirm
    /\ last.self = 2
    /\ LastLines = <<1, 2>>
    /\ last.action.move_id = 2
    /\ last.action.product_ids = {2}

\* C6: the call action_print makes runs with the context flag on the wizard's
\* invoice, returns no wizard action, and (nothing else failing) delivers one
\* document with a certificate per non-dropped line.
C6_ResumeDelivers ==
    ( /\ last.called /\ last.via = "wizard" /\ last.fault = "none"
      /\ \A i \in 1..Len(last.products) : Composes(last.self, last.products[i]) )
    => /\ last.confirm
       /\ last.action.type # "ir.actions.act_window"
       /\ Delivered
       /\ Pages(attachments[last.action.attachment_id].datas.b64)
              = [i \in 1..Len(last.products) |->
                     Certificate(last.self, last.products[i])]

\* The partition of a call: the product lists of the lines waiting for
\* confirmation, included, and left out.
NeedsOf(l) == IF l.action.type = "ir.actions.act_window" THEN l.missing ELSE <<>>

IncludedOf(l) ==
    LET In(p) == p \notin Range(NeedsOf(l)) IN SelectSeq(l.products, In)

ExcludedOf(l) ==
    LET Out(p) == p \notin Range(l.products)
    IN  SelectSeq(invoice_line_ids[l.self], Out)

\* C7: two successive calls on the same invoice without the context flag list
\* the same products for confirmation; a call with the flag after one without
\* it includes exactly the previously included and the listed products, in
\* line order, lists none, and leaves out the same lines.
C7_ConfirmationIdempotent ==
    [][ ( /\ last.called /\ last.fault # "read"
          /\ last'.called /\ last'.fault # "read"
          /\ last'.self = last.self /\ ~last.confirm )
        => /\ ~last'.confirm => /\ NeedsOf(last') = NeedsOf(last)
                                /\ IncludedOf(last') = IncludedOf(last)
                                /\ ExcludedOf(last') = ExcludedOf(last)
           /\ last'.confirm =>
                 /\ NeedsOf(last') = <<>>
                 /\ LET Both(p) == p \in Range(IncludedOf(last)) \cup Range(last.missing)
                    IN  IncludedOf(last') = SelectSeq(invoice_line_ids[last.self], Both)
                 /\ ExcludedOf(last') = ExcludedOf(last) ]_vars

C7_Witness ==
    /\ last.called /\ last.via = "wizard" /\ last.fault = "none"
    /\ last.confirm
    /\ LastLines = <<2, 1>>
    /\ last.products = <<2, 1>>
    /\ last.rendered

S_3 == <<"3">>
S_5 == <<"5">>
S_5month == <<"5", " ", "m", "o", "n", "t", "h">>

\* C8: the normalized warranty period is never empty, and is "1" for an
\* absent value, "", False and " muaj", "3" for "3 muaj", "5" for "5 month".
C8_PeriodNeverEmpty ==
    period.set =>
        /\ period.value # <<>>
        /\ raw \in {WAbsent, WFalse, WStr(<<>>), WStr(S_muaj)} => period.value = S_1
        /\ raw = WStr(S_3muaj) => period.value = S_3
        /\ raw = WStr(S_5month) => period.value = S_5

C8_Witness ==
    /\ period.set
    /\ raw = WStr(S_muaj)
    /\ period.value = S_1

\* C9: every call returns one of the defined actions (download, "No Products"
\* warning, "Error" notification, wizard), and an "Error" notification names
\* the exception that ended the call.
C9_NoExceptionEscapes ==
    last.called =>
        /\ \/ Delivered
           \/ last.action = NoProductsAction
           \/ last.action.type = "ir.actions.act_window"
           \/ /\ last.action.type = "ir.actions.client"
              /\ last.action.title = "Error"
              /\ last.action.level = "danger"
        /\ last.action.title = "Error" => last.action.cause # ""
        /\ last.fault = "read" => last.action = ErrorAction("AccessError: invoice lines")

C9_Witness ==
    /\ last.called /\ last.fault = "create"
    /\ last.rendered
    /\ last.action = ErrorAction("AttributeError: 'list' object has no attribute 'id'")

\* C10: when at least one included line composes, the call delivers a document
\* holding the certificates of the lines that compose, in line order, without
\* those that fail.
C10_PartialRender ==
    ( /\ Filtered /\ last.fault = "none"
      /\ last.rendered
      /\ \E i \in 1..Len(last.products) : Composes(last.self, last.products[i]) )
    => /\ Delivered
       /\ LET Ok(p) == Composes(last.self, p)
              good == SelectSeq(last.products, Ok)
          IN  Pages(attachments[last.action.attachment_id].datas.b64)
                  = [i \in 1..Len(good) |-> Certificate(last.self, good[i])]

\* C11: when the product's warranty is not set (False, no attribute, or ""),
\* the period put on the certificate is the default period of the settings:
\* the saved one, or "1" when none was saved.
C11_DefaultPeriodFromSettings ==
    [][ ( /\ ~period.set /\ period'.set
          /\ raw \in {WFalse, WAbsent, WStr(<<>>)} )
        => period'.value = GetParam(K_Period, S_1) ]_vars

\* C12: only a warranty that is the value False asks for confirmation: every
\* product listed for confirmation (in the returned action, in an open wizard)
\* has warranty False; a non-dropped line whose warranty is "", missing or a
\* text is included and not listed; and a call whose non-dropped lines hold no
\* False warranty goes on to rendering, with or without the context flag.
C12_OnlySentinelConfirms ==
    /\ \A p \in Range(last.missing) \cup last.action.product_ids : Sentinel(p)
    /\ \A w \in wizards : \A p \in w.product_ids : Sentinel(p)
    /\ Filtered =>
          /\ \A i \in 1..Len(LastLines) :
                (~Dropped(LastLines[i]) /\ ~Sentinel(LastLines[i]))
                => /\ LastLines[i] \in Range(IncludedOf(last))
                   /\ LastLines[i] \notin Range(NeedsOf(last))
          /\ ( /\ \E i \in 1..Len(LastLines) : ~Dropped(LastLines[i])
               /\ \A i \in 1..Len(LastLines) :
                     ~Dropped(LastLines[i]) => ~Sentinel(LastLines[i]) )
             => /\ last.rendered
                /\ last.action.type # "ir.actions.act_window"

C12_Witness ==
    /\ Filtered /\ ~last.confirm
    /\ LastLines = <<5, 4>>
    /\ Product(5).x_studio_warranty = WStr(<<>>)
    /\ Product(4).x_studio_warranty = WAbsent
    /\ last.products = <<5, 4>>
    /\ last.missing = <<>>
    /\ last.rendered

\* C13: for every invoice and either value of the context flag the lines fall
\* into exactly one of three parts: left out (dropped lines, lines without a
\* product), waiting for confirmation, included. The three parts are disjoint,
\* together they have as many entries as the invoice has lines, and each part
\* keeps the lines' order.
C13_PartitionCoversLines ==
    Filtered =>
        LET excluded == ExcludedOf(last)
            needs == NeedsOf(last)
            included == IncludedOf(last)
            InExcluded(p) == p \in Range(excluded)
            InNeeds(p) == p \in Range(needs)
            InIncluded(p) == p \in Range(included)
        IN  /\ \A i \in 1..Len(LastLines) :
                  LET l == LastLines[i]
                  IN  /\ InExcluded(l) \/ InNeeds(l) \/ InIncluded(l)
                      /\ ~(InExcluded(l) /\ InNeeds(l))
                      /\ ~(InExcluded(l) /\ InIncluded(l))
                      /\ ~(InNeeds(l) /\ InIncluded(l))
                      /\ InExcluded(l) <=> Dropped(l)
            /\ Len(excluded) + Len(needs) + Len(included) = Len(LastLines)
            /\ excluded = SelectSeq(LastLines, InExcluded)
            /\ needs = SelectSeq(LastLines, InNeeds)
            /\ included = SelectSeq(LastLines, InIncluded)

C13_Witness ==
    /\ Filtered /\ ~last.confirm
    /\ LastLines = <<2, 2>>
    /\ NeedsOf(last) = <<2, 2>>
    /\ IncludedOf(last) = <<>>
    /\ ExcludedOf(last) = <<>>

\* The positions of product p in a list.
Positions(seq, p) == {i \in 1..Len(seq) : seq[i] = p}

\* C14: a non-dropped product that is on k lines of the invoice is k times in
\* the list handed to rendering, in the lines' order, and (its certificate
\* composing) the delivered document holds k certificates of it.
C14_NoDeduplication ==
    ( /\ Filtered /\ last.fault = "none"
      /\ last.rendered
      /\ \A i \in 1..Len(last.products) : Composes(last.self, last.products[i]) )
    => \A p \in Range(LastLines) :
          ~Dropped(p) =>
             /\ Cardinality(Positions(last.products, p))
                    = Cardinality(Positions(LastLines, p))
             /\ Delivered
             /\ Cardinality(Positions(
                    Pages(attachments[last.action.attachment_id].datas.b64),
                    Certificate(last.self, p)))
                    = Cardinality(Positions(LastLines, p))

\* What get_settings is to return after a save of selection S and period d:
\* the ids of S as decimal texts in record order (7884 for an empty selection)
\* and d ("1" for an empty period).
SavedSettings(S, d) ==
    [exclude_product_ids |->
         IF S = <<>> THEN <<S_7884>> ELSE [i \in 1..Len(S) |-> IntToStr(S[i])],
     default_warranty_period |-> IF d = <<>> THEN S_1 ELSE d]

\* C18: with nothing saved get_settings returns the id 7884 and the period
\* "1"; after save_settings with selection S and period d it returns the ids
\* of S and d, and 7884 / "1" in place of an empty selection / empty period.
C18_SettingsRoundTrip ==
    [][ /\ (~config[K_Exclude].set /\ ~config[K_Period].set)
           => GetSettings = SavedSettings(<<>>, <<>>)
        /\ \A S \in SettingsSelections, d \in SettingsPeriods :
              config' = SaveSettingsConfig(S, d) => GetSettings' = SavedSettings(S, d)
      ]_vars

C18_Witness ==
    /\ config = [k \in {K_Exclude, K_Period} |->
                    [set |-> TRUE,
                     value |-> IF k = K_Exclude THEN <<"1", ",", "2">> ELSE <<"2">>]]
    /\ GetSettings.exclude_product_ids = << <<"1">>, <<"2">> >>
    /\ GetSettings.default_warranty_period = <<"2">>

\* C20: a call of generate_warranty_pdfs adds a row to ir.attachment if and
\* only if it returns the download action; then it adds exactly one row, of
\* the call's invoice, holding the rendered bytes, and the action names that
\* row. A call returning the "No Products" warning, the wizard or the "Error"
\* notification leaves ir.attachment as it was.
C20_AttachmentIffDelivered ==
    [][ (last' # last \/ attachments' # attachments)
        => /\ last'.called
           /\ last'.created \in {0, 1}
           /\ last'.created = 1 <=> last'.action.type = "ir.actions.act_url"
           /\ last'.created = 0 => attachments' = attachments
           /\ last'.created = 1 =>
                 /\ Len(attachments') = Len(attachments) + 1
                 /\ SubSeq(attachments', 1, Len(attachments)) = attachments
                 /\ LET row == attachments'[Len(attachments')]
                    IN  /\ last'.action.attachment_id = row.id
                        /\ row.res_model = "account.move"
                        /\ row.res_id = last'.self
                        /\ row.datas.b64 =
                               CreateWarrantyPdfDirect(last'.self,
                                                       ListArg(last'.products)).value
      ]_vars

C20_Witness ==
    /\ last.called /\ last.fault = "none"
    /\ last.rendered
    /\ last.action.title = "Error"
    /\ last.created = 0
    /\ attachments = <<>>

\* A Table of one row of n cells.
OneRow(b, n) == b.flowable = "Table" /\ Len(b.rows) = 1 /\ Len(b.rows[1]) = n

\* The first block of cell c of the only row of b.
CellOf(b, c) == b.rows[1][c][1]

IsHeader(b) ==
    \/ b.flowable = "Paragraph" /\ b.style = "HeaderFallback"
    \/ /\ OneRow(b, 2)
       /\ \/ CellOf(b, 1).flowable = "Image"
          \/ CellOf(b, 1).style = "LogoPlaceholder"
       /\ CellOf(b, 2).flowable = "Table" /\ Len(CellOf(b, 2).rows) = 4

IsFieldBlock(b) ==
    \/ b.flowable = "Paragraph" /\ b.style = "FormLabel"
    \/ /\ OneRow(b, 2)
       /\ CellOf(b, 1).flowable = "Table" /\ Len(CellOf(b, 1).rows) = 3
       /\ OneRow(CellOf(b, 2), 1) /\ CellOf(CellOf(b, 2), 1).fixed = "FLETE GARANCIE"

IsSignature(b) ==
    /\ OneRow(b, 3)
    /\ \A c \in 1..3 : /\ Len(b.rows[1][c]) = 3
                       /\ b.rows[1][c][2].style = "SignLabel"

IsAttention(b) ==
    /\ OneRow(b, 2)
    /\ OneRow(CellOf(b, 1), 1) /\ CellOf(CellOf(b, 1), 1).fixed = "Vemendje"
    /\ CellOf(b, 2).style = "AttentionText"

\* The section of the certificate a block of the story belongs to; spacers and
\* the titles of the two lists belong to none.
SectionOf(b) ==
    CASE IsHeader(b) -> "header"
      [] IsFieldBlock(b) -> "field/title row"
      [] b.flowable = "Paragraph" /\ b.style = "Disclaimer" -> "disclaimer"
      [] b.flowable = "ListFlowable" /\ b.fixed = "warranty_terms" -> "general terms"
      [] b.flowable = "ListFlowable" /\ b.fixed = "exclusions_terms" -> "exclusion terms"
      [] IsSignature(b) -> "signature"
      [] IsAttention(b) -> "attention"
      [] OTHER -> ""

RECURSIVE Sections(_)
\* The sections of a story in order, each named once per run of its blocks.
Sections(story) ==
    IF story = <<>> THEN <<>>
    ELSE LET rest == Sections(Tail(story))
             sec == SectionOf(Head(story))
         IN  IF sec = "" \/ (rest # <<>> /\ Head(rest) = sec) THEN rest
             ELSE <<sec>> \o rest

\* C15: every story _create_warranty_content_professional returns holds the
\* seven sections, each once and in this order: header, field/title row,
\* disclaimer, general terms list, exclusion terms list, signature columns,
\* attention banner; also when the header or the field block is the fallback.
C15_SevenSectionsInOrder ==
    (page.call = "content" /\ ~page.result.raised)
    => Sections(page.result.value) =
           <<"header", "field/title row", "disclaimer", "general terms",
             "exclusion terms", "signature", "attention">>

C15_Witness ==
    /\ page.call = "content" /\ ~page.result.raised
    /\ env.header_fault /\ env.section_fault = "table"
    /\ page.result.value[1].style = "HeaderFallback"
    /\ page.result.value[3].style = "FormLabel"
    /\ Len(page.result.value) = 14

RECURSIVE HasImage(_)
\* Some block of the story, at any depth, is the logo Image.
HasImage(story) ==
    \E i \in 1..Len(story) :
        \/ story[i].flowable = "Image"
        \/ \E r \in 1..Len(story[i].rows) :
              \E c \in 1..Len(story[i].rows[r]) : HasImage(story[i].rows[r][c])

\* A header block whose logo is a text: the "LOGO" paragraph in the logo cell,
\* or the "SUPERMART" line of the fallback.
TextPlaceholder(b) ==
    \/ b.flowable = "Paragraph" /\ b.style = "HeaderFallback" /\ b.fixed = "SUPERMART"
    \/ /\ OneRow(b, 2)
       /\ CellOf(b, 1).flowable = "Paragraph" /\ CellOf(b, 1).fixed = "LOGO"

\* C16: when the logo file does not exist, _create_header_section raises
\* nothing and returns one header block with a text in place of the image and
\* no Image anywhere; a story of _create_warranty_content_professional then
\* starts with that header.
C16_MissingLogoNotFatal ==
    ~env.logo_exists =>
        /\ page.call = "header" =>
              /\ ~page.result.raised
              /\ Len(page.result.value) = 1
              /\ IsHeader(page.result.value[1])
              /\ TextPlaceholder(page.result.value[1])
              /\ ~HasImage(page.result.value)
        /\ (page.call = "content" /\ ~page.result.raised) =>
              /\ TextPlaceholder(page.result.value[1])
              /\ ~HasImage(page.result.value)

C16_Witness ==
    /\ page.call = "header"
    /\ ~env.logo_exists /\ ~env.header_fault
    /\ ~page.result.raised
    /\ CellOf(page.result.value[1], 1).fixed = "LOGO"

\* What the value column shows for a text: the text, or the placeholder of an
\* empty one.
Shown(text, placeholder) == IF text = <<>> THEN placeholder ELSE text

\* C17: whenever the try block of _create_customer_product_section raises, at
\* whichever step, the call returns the three plain lines "Emer Mbiemer: ",
\* "Marka: " and "Afati Garancise: " with the customer name, the product name
\* and the period followed by " Muaj".
C17_FallbackWhicheverStep ==
    ( /\ page.call = "section"
      /\ CreateCustomerProductSectionTry(page.customer_name, page.product_name,
                                         page.warranty_period).raised )
    => /\ ~page.result.raised
       /\ Len(page.result.value) = 3
       /\ \A i \in 1..3 : page.result.value[i].flowable = "Paragraph"
       /\ page.result.value[1].fixed = "Emer Mbiemer: "
       /\ page.result.value[1].text = Shown(page.customer_name, S_CustomerPlaceholder)
       /\ page.result.value[2].fixed = "Marka: "
       /\ page.result.value[2].text = Shown(page.product_name, S_ProductPlaceholder)
       /\ page.result.value[3].fixed = "Afati Garancise: "
       /\ page.result.value[3].text = Shown(page.warranty_period, S_1) \o S_SpaceMuaj

\* An action without the id of the row it names.
Outcome(action) == [action EXCEPT !.attachment_id = 0]

\* C19: whatever the interleaving of the invocations on different invoices,
\* a finished invocation has built the lists and returned the action it
\* builds and returns when it runs alone, it has created a row exactly when
\* it would alone, the row it names holds the document of its own invoice, and
\* every ir.attachment row belongs to the invoice of the invocation that
\* created it.
C19_InvocationsIndependent ==
    /\ \A self \in Invoices :
          conc[self].pc = "done" =>
             \E alone \in {GenerateWarrantyPdfs(self, conc[self].confirm,
                                                conc[self].fault)} :
                /\ Outcome(conc[self].action) = Outcome(alone.action)
                /\ conc[self].fault # "read" =>
                      /\ conc[self].products = alone.products
                      /\ conc[self].missing = alone.missing
                /\ Cardinality(conc[self].created)
                       = Len(alone.attachments) - Len(attachments)
                /\ \A k \in conc[self].created :
                      /\ conc[self].action.attachment_id = k
                      /\ attachments[k].datas
                             = alone.attachments[Len(alone.attachments)].datas
    /\ \A k \in 1..Len(attachments) :
          \E self \in Invoices : k \in conc[self].created /\ attachments[k].res_id = self

C19_Witness ==
    /\ conc[1].pc = "done" /\ conc[1].overlapped
    /\ conc[2].pc = "done" /\ conc[2].overlapped
    /\ invoice_line_ids = (1 :> <<2>> @@ 2 :> <<1>>)
    /\ ~conc[1].confirm /\ conc[1].action.type = "ir.actions.act_window"
    /\ conc[1].action.product_ids = {2}
    /\ conc[2].fault = "none" /\ conc[2].products = <<1>>
    /\ conc[2].action.title = "Error"

====
